---- MODULE Spec2Model ----
(***************************************************************************)
(* A model of the cvx agent (src/agent): the provider selection get_model, *)
(* the primary/fallback retry loop run_with_fallback, the three handlers,  *)
(* dispatch, and the two process entry points main.py and run.py.          *)
(*                                                                         *)
(* Strings whose characters matter (model names, keywords) are sequences   *)
(* of one-character strings; opaque strings (action values, messages) are  *)
(* TLA+ strings.                                                           *)
(***************************************************************************)
EXTENDS Integers, Sequences, FiniteSets, TLC

VARIABLES
    PRIMARY_MODEL,   \* agents.py:23, read once at import
    FALLBACK_MODEL,  \* agents.py:24
    entry,           \* who is running: "none", "main", "run", "build", "rwf"
    input_data,      \* the document on stdin / the value passed to the handler
    pc,              \* position of the running invocation
    handler,         \* the handler whose closure is action_fn
    max_retries,     \* run_with_fallback's parameter
    modelIdx,        \* index into [PRIMARY_MODEL, FALLBACK_MODEL] of the next attempt
    attempt,         \* value of the inner loop variable of the next attempt
    calls,           \* history: the action_fn calls of this invocation, in order
    output,          \* the value the handler returned
    error,           \* the exception in flight / caught by the entry point
    stdout,          \* chunks written to the output stream
    stderr,          \* lines written to the error stream
    exitCode,        \* -1 while the process has not exited
    prev,            \* history: the last completed invocation of the build handler
    selName,         \* get_model's argument (selection specification)
    selHandle,       \* get_model's result
    keyA, keyB,      \* hash_input's arguments (cache-key specification)
    keyOutA, keyOutB \* hash_input's results

vars == <<PRIMARY_MODEL, FALLBACK_MODEL, entry, input_data, pc, handler,
          max_retries, modelIdx, attempt, calls, output, error, stdout,
          stderr, exitCode, prev, selName, selHandle, keyA, keyB,
          keyOutA, keyOutB>>

procVars == <<PRIMARY_MODEL, FALLBACK_MODEL, entry, input_data, pc, handler,
              max_retries, modelIdx, attempt, calls, output, error, stdout,
              stderr, exitCode, prev>>

selVars == <<selName, selHandle>>

keyVars == <<keyA, keyB, keyOutA, keyOutB>>

(***************************************************************************)
(* Bounds of the model.                                                    *)
(***************************************************************************)
\* largest max_retries passed to run_with_fallback when it is called directly
MaxRetries == 3
\* number of distinct request payloads
MaxBody == 2
\* number of distinct JSON-serializable values a provider call can return
MaxVal == 2
\* number of fragments a model name is built from in the selection specification
MaxFrags == 2
\* number of key/value pairs of a request in the cache-key specification
MaxPairs == 2

(***************************************************************************)
(* Character strings.                                                      *)
(***************************************************************************)
S_openai   == <<"o","p","e","n","a","i","/">>
S_qwen     == <<"q","w","e","n","/">>
S_llama    == <<"l","l","a","m","a">>
S_mixtral  == <<"m","i","x","t","r","a","l">>
S_groq     == <<"g","r","o","q">>
S_gemini   == <<"g","e","m","i","n","i">>
S_flash    == <<"f","l","a","s","h">>
S_pro      == <<"p","r","o">>
S_claude   == <<"c","l","a","u","d","e">>
S_sonnet   == <<"s","o","n","n","e","t">>
S_opus     == <<"o","p","u","s">>
S_haiku    == <<"h","a","i","k","u">>
S_gpt4o    == <<"g","p","t","-","4","o">>

\* "gemini-2.5-flash", the default of both AI_MODEL and AI_FALLBACK_MODEL
DefaultModel == S_gemini \o <<"-","2",".","5","-">> \o S_flash
\* "claude-haiku-4-5-20251001", as in test_build_with_different_models
ClaudeHaiku ==
    S_claude \o <<"-">> \o S_haiku
      \o <<"-","4","-","5","-","2","0","2","5","1","0","0","1">>
\* "llama-3"
Llama3 == S_llama \o <<"-","3">>

\* str.lower() on the ASCII capitals
Capitals == <<"A","B","C","D","E","F","G","H","I","J","K","L","M",
              "N","O","P","Q","R","S","T","U","V","W","X","Y","Z">>
Smalls   == <<"a","b","c","d","e","f","g","h","i","j","k","l","m",
              "n","o","p","q","r","s","t","u","v","w","x","y","z">>
LowerOf ==
    [c \in {Capitals[i] : i \in 1..Len(Capitals)} |->
        Smalls[CHOOSE i \in 1..Len(Capitals) : Capitals[i] = c]]

lower(s) == [i \in 1..Len(s) |-> IF s[i] \in DOMAIN LowerOf THEN LowerOf[s[i]] ELSE s[i]]

\* Python's `x in s` on strings: x occurs in s as a contiguous substring
In(x, s) == \E i \in 1..(Len(s) - Len(x) + 1) : SubSeq(s, i, i + Len(x) - 1) = x

\* any(x in s for x in kws)
AnyIn(kws, s) == \E k \in 1..Len(kws) : In(kws[k], s)

GroqKeywords == <<S_openai, S_qwen, S_llama, S_mixtral, S_groq>>
GoogleKeywords == <<S_gemini, S_flash, S_pro>>
AnthropicKeywords == <<S_claude, S_sonnet, S_opus, S_haiku>>

\* a plausible slip: the Claude check placed before the Gemini check
get_model_claude_first(model_name) ==
    LET model_name_lower == lower(model_name) IN
    IF AnyIn(GroqKeywords, model_name_lower)
    THEN [family |-> "Groq", name |-> model_name]
    ELSE IF AnyIn(AnthropicKeywords, model_name_lower)
    THEN [family |-> "Anthropic", name |-> model_name]
    ELSE IF AnyIn(GoogleKeywords, model_name_lower)
    THEN [family |-> "Google", name |-> model_name]
    ELSE [family |-> "OpenAI", name |-> model_name]

\* agents.py get_model: the handle is a provider family bound to the literal name
get_model(model_name) ==
    LET model_name_lower == lower(model_name) IN
    IF AnyIn(GroqKeywords, model_name_lower)
    THEN [family |-> "Groq", name |-> model_name]
    ELSE IF AnyIn(GoogleKeywords, model_name_lower)
    THEN [family |-> "Google", name |-> model_name]
    ELSE IF AnyIn(AnthropicKeywords, model_name_lower)
    THEN [family |-> "Anthropic", name |-> model_name]
    ELSE [family |-> "OpenAI", name |-> model_name]


(***************************************************************************)
(* Values.                                                                 *)
(***************************************************************************)
\* max_retries: int = 2, the default every handler uses
DefaultMaxRetries == 2

\* the (AI_MODEL, AI_FALLBACK_MODEL) environments the model starts from
ModelConfigs ==
    { <<DefaultModel, DefaultModel>>,   \* nothing set: both defaults
      <<ClaudeHaiku, DefaultModel>>,    \* AI_MODEL set, as the tests do
      <<Llama3, S_gpt4o>> }             \* both set

Bodies == 1..MaxBody

\* values of the "action" key; the last is not an action of the agent
Actions == {"build", "extract", "advise", "frobnicate"}

\* a JSON object: the action key may be absent; body stands for the other keys
Objects ==
    [kind : {"object"}, hasAction : {TRUE}, action : Actions, body : Bodies]
      \cup [kind : {"object"}, hasAction : {FALSE}, action : {""}, body : Bodies]

\* a text that is not JSON, such as "{ not json"
Malformed == [kind |-> "malformed", hasAction |-> FALSE, action |-> "", body |-> 0]
\* a JSON document that is not an object, such as [1, 2]
NonObject == [kind |-> "nonobject", hasAction |-> FALSE, action |-> "", body |-> 0]
NoInput == [kind |-> "none", hasAction |-> FALSE, action |-> "", body |-> 0]

\* what can arrive on stdin, and what json.load can return
Documents == Objects \cup {Malformed, NonObject}
PyValues == Objects \cup {NonObject}

\* a value returned by action_fn; jsonable is whether json can encode it
NoVal == [id |-> 0, jsonable |-> TRUE]
JsonValues == [id : 1..MaxVal, jsonable : {TRUE}]
\* model_dump() is a python-mode dump: it may hold values json cannot encode
ModelDumps == JsonValues \cup {[id |-> 1, jsonable |-> FALSE]}

\* what one call of the handler's closure can return when it succeeds
ProviderValues(h) == IF h = "build" THEN ModelDumps ELSE JsonValues

\* an exception: its class, its message and argument, and under str what
\* formatting it in an f-string does: "text" when it gives a text, else what
\* its __str__ raises
NoError == [exc |-> "", msg |-> "", arg |-> "", str |-> "text"]
JSONDecodeError == [exc |-> "JSONDecodeError", msg |-> "Expecting property name", arg |-> "", str |-> "text"]
AttributeError ==
    [exc |-> "AttributeError", msg |-> "object has no attribute 'get'", arg |-> "",
     str |-> "text"]
TypeError == [exc |-> "TypeError", msg |-> "Object is not JSON serializable", arg |-> "", str |-> "text"]
AllAttemptsFailed == [exc |-> "RuntimeError", msg |-> "All AI attempts failed", arg |-> "", str |-> "text"]
\* the BaseExceptions that are not Exceptions, as action_fn can raise them:
\* KeyboardInterrupt, SystemExit(0), SystemExit(3), and GeneratorExit (which
\* asyncio.CancelledError behaves like)
BaseExceptionNames == {"KeyboardInterrupt", "SystemExit(0)", "SystemExit(3)", "GeneratorExit"}
Raised(name) == [exc |-> name, msg |-> "", arg |-> "", str |-> "text"]
\* what `except Exception` catches
IsException(e) == e # NoError /\ e.exc \notin BaseExceptionNames
\* what formatting an exception can raise in place of giving a text: an
\* Exception, or a BaseException that is not one
StrRaises == {"Exception"} \cup BaseExceptionNames
StrOutcomes == {"text"} \cup StrRaises
\* the Exception that formatting the caught exception raised, such as
\* RuntimeError("boom"), s being what formatting it does in turn
LogError(s) == [exc |-> "RuntimeError", msg |-> "boom", arg |-> "", str |-> s]
\* what formatting the exception e raises when it gives no text: the
\* BaseException named, or an Exception such as RuntimeError("inner")
StrError(e) ==
    IF e.str \in BaseExceptionNames THEN Raised(e.str)
    ELSE [exc |-> "RuntimeError", msg |-> "inner", arg |-> "", str |-> "text"]
\* how one iteration of the try statement can go.  res: action_fn returns a
\* value, raises a BaseException that is not an Exception, or raises an
\* Exception e.  log: what the except clause's
\* print(f"... {e}", file=sys.stderr) then does: the line is printed, or
\* formatting e raises a BaseException, or it raises an Exception, whose own
\* formatting does str.  (The stream itself is taken to accept what is
\* written to it.)
Returns == [res |-> "value", log |-> "", str |-> ""]
Logged == [res |-> "Exception", log |-> "printed", str |-> ""]
LogRaisesException ==
    {[res |-> "Exception", log |-> "Exception", str |-> s] : s \in StrOutcomes}
LogRaisesBaseException ==
    {[res |-> "Exception", log |-> b, str |-> ""] : b \in BaseExceptionNames}
LetThrough == {[res |-> b, log |-> "", str |-> ""] : b \in BaseExceptionNames}
Outcomes ==
    {Returns, Logged} \cup LogRaisesException \cup LogRaisesBaseException
      \cup LetThrough
\* how the interpreter ends a process on an exception nothing has caught:
\* whether it prints a traceback, and the exit status (-2: killed by SIGINT)
UncaughtExit(e) ==
    CASE e.exc = "KeyboardInterrupt" -> [traceback |-> TRUE, status |-> -2]
      [] e.exc = "SystemExit(0)" -> [traceback |-> FALSE, status |-> 0]
      [] e.exc = "SystemExit(3)" -> [traceback |-> FALSE, status |-> 3]
      [] OTHER -> [traceback |-> TRUE, status |-> 1]
UnknownAction(action) ==
    [exc |-> "ValueError", msg |-> "Unknown action: ", arg |-> action, str |-> "text"]

NoPrev == [input |-> NoInput, output |-> NoVal]
NoHandle == [family |-> "none", name |-> <<>>]

(***************************************************************************)
(* Pure parts of the program.                                              *)
(***************************************************************************)
\* json.load(sys.stdin)
json_load(doc) ==
    IF doc.kind = "malformed"
    THEN [ok |-> FALSE, value |-> NoInput, error |-> JSONDecodeError]
    ELSE [ok |-> TRUE, value |-> doc, error |-> NoError]

\* a plausible slip: an unknown action silently falls back to build
dispatch_default_build(d) ==
    IF d.kind # "object"
    THEN [handler |-> "none", error |-> AttributeError]
    ELSE LET action == IF d.hasAction THEN d.action ELSE "build" IN
         IF action = "extract" THEN [handler |-> "extract", error |-> NoError]
         ELSE IF action = "advise" THEN [handler |-> "advise", error |-> NoError]
         ELSE [handler |-> "build", error |-> NoError]

\* agents.py dispatch: the handler it calls, or the error it raises
dispatch(d) ==
    IF d.kind # "object"
    THEN [handler |-> "none", error |-> AttributeError]
    ELSE LET action == IF d.hasAction THEN d.action ELSE "build" IN
         IF action = "build" THEN [handler |-> "build", error |-> NoError]
         ELSE IF action = "extract" THEN [handler |-> "extract", error |-> NoError]
         ELSE IF action = "advise" THEN [handler |-> "advise", error |-> NoError]
         ELSE [handler |-> "none", error |-> UnknownAction(action)]

\* a plausible slip: run.py routed through dispatch like main.py
run_route_dispatch(d) == dispatch(d)

\* run.py: build_cv_and_letter(input_json), whatever the document holds
run_route(d) == [handler |-> "build", error |-> NoError]

\* for model_name in [PRIMARY_MODEL, FALLBACK_MODEL]
ModelOrder == <<PRIMARY_MODEL, FALLBACK_MODEL>>

\* run_with_fallback after the except clause of attempt att on model idx: the
\* next iteration of the inner loop, else of the outer loop, else the raise
AfterFailure(idx, att, m) ==
    IF att + 1 < m
    THEN [pc |-> "rwf", modelIdx |-> idx, attempt |-> att + 1, error |-> NoError]
    ELSE IF idx < Len(ModelOrder)
    THEN [pc |-> "rwf", modelIdx |-> idx + 1, attempt |-> 0, error |-> NoError]
    ELSE [pc |-> "raised", modelIdx |-> idx, attempt |-> att, error |-> AllAttemptsFailed]

\* a plausible slip: a success is kept but the loop goes on to the next attempt
AfterSuccessKeepGoing(idx, att, m) ==
    [pc |-> IF AfterFailure(idx, att, m).pc = "rwf" THEN "rwf" ELSE "returned",
     modelIdx |-> AfterFailure(idx, att, m).modelIdx,
     attempt |-> AfterFailure(idx, att, m).attempt,
     error |-> NoError]

\* run_with_fallback when action_fn returns: return action_fn(model_name)
AfterSuccess(idx, att, m) ==
    [pc |-> "returned", modelIdx |-> idx, attempt |-> att, error |-> NoError]

\* run_with_fallback when action_fn raises what `except Exception` does not
\* catch: nothing is printed and the exception leaves the function
AfterInterrupt(idx, att, m) ==
    [pc |-> "raised", modelIdx |-> idx, attempt |-> att, error |-> NoError]

\* run_with_fallback when the except clause itself raises, while formatting
\* or printing the line: nothing is printed, no further call is made, and the
\* new exception leaves the function
AfterLogRaises(idx, att, m) ==
    [pc |-> "raised", modelIdx |-> idx, attempt |-> att, error |-> NoError]

\* run_with_fallback with no iteration to run (range(max_retries) is empty for
\* both models): control falls through to the raise
LoopEntry(m) ==
    IF m > 0 THEN [pc |-> "rwf", error |-> NoError]
    ELSE [pc |-> "raised", error |-> AllAttemptsFailed]

\* json.dump(output, sys.stdout, indent=2): the chunks the encoder yields, each
\* written as it is yielded, and whether the encoder raises after them
iterencode(val) ==
    IF val.jsonable
    THEN [chunks |-> << [tok |-> "{", id |-> 0], [tok |-> "doc", id |-> val.id],
                        [tok |-> "}", id |-> 0] >>,
          raises |-> FALSE]
    ELSE [chunks |-> << [tok |-> "{", id |-> 0] >>, raises |-> TRUE]

(***************************************************************************)
(* The state machine.                                                      *)
(***************************************************************************)
\* the invocation in progress has ended: a process has exited, a direct call
\* has returned or raised to its caller
Completed ==
    \/ entry \in {"main", "run"} /\ pc = "exited"
    \/ entry \in {"build", "rwf"} /\ pc \in {"returned", "raised"}

Idle == entry = "none"

\* history kept when an invocation ends: the last invocation of the build
\* handler that returned a result, with the request it was given
Remember ==
    prev' = IF handler = "build" /\ output # NoVal
            THEN [input |-> input_data, output |-> output]
            ELSE prev

\* a fresh invocation e on document d whose handler h calls
\* run_with_fallback(do_h, m)
Enter(e, d, h, m) ==
    /\ entry' = e
    /\ input_data' = d
    /\ handler' = h
    /\ max_retries' = m
    /\ pc' = LoopEntry(m).pc
    /\ error' = LoopEntry(m).error
    /\ modelIdx' = 1
    /\ attempt' = 0
    /\ calls' = << >>
    /\ output' = NoVal
    /\ stdout' = << >>
    /\ stderr' = << >>
    /\ exitCode' = -1

\* a fresh invocation e on document d that raises err before any handler runs
Raise(e, d, err) ==
    /\ entry' = e
    /\ input_data' = d
    /\ handler' = "none"
    /\ max_retries' = 0
    /\ pc' = "raised"
    /\ error' = err
    /\ modelIdx' = 1
    /\ attempt' = 0
    /\ calls' = << >>
    /\ output' = NoVal
    /\ stdout' = << >>
    /\ stderr' = << >>
    /\ exitCode' = -1

\* a route (a handler or an error) taken by entry e on document d
Take(e, d, route) ==
    IF route.handler = "none"
    THEN Raise(e, d, route.error)
    ELSE Enter(e, d, route.handler, DefaultMaxRetries)

\* main.py main(): json.load, then dispatch up to the handler's loop
StartMain ==
    /\ Idle
    /\ \E doc \in Documents :
         IF json_load(doc).ok
         THEN Take("main", doc, dispatch(json_load(doc).value))
         ELSE Raise("main", doc, json_load(doc).error)
    /\ UNCHANGED <<PRIMARY_MODEL, FALLBACK_MODEL, prev, selVars, keyVars>>

\* run.py main(): json.load, then build_cv_and_letter up to its loop
StartRun ==
    /\ Idle
    /\ \E doc \in Documents :
         IF json_load(doc).ok
         THEN Take("run", doc, run_route(json_load(doc).value))
         ELSE Raise("run", doc, json_load(doc).error)
    /\ UNCHANGED <<PRIMARY_MODEL, FALLBACK_MODEL, prev, selVars, keyVars>>

\* build_cv_and_letter(input_data) called directly, as the unit tests do
CallBuild ==
    /\ Idle
    /\ \E d \in PyValues : Enter("build", d, "build", DefaultMaxRetries)
    /\ UNCHANGED <<PRIMARY_MODEL, FALLBACK_MODEL, prev, selVars, keyVars>>

\* run_with_fallback(action_fn, max_retries) called directly
CallRunWithFallback ==
    /\ Idle
    /\ \E m \in 0..MaxRetries : Enter("rwf", NoInput, "action_fn", m)
    /\ UNCHANGED <<PRIMARY_MODEL, FALLBACK_MODEL, prev, selVars, keyVars>>

\* one iteration of run_with_fallback's inner loop going the way o, v being
\* the value action_fn returns when it returns
Try(o, v) ==
    LET name == ModelOrder[modelIdx]
        ok == o.res = "value"
        caught == o.res = "Exception"
        logged == caught /\ o.log = "printed"
        val == IF ok THEN v ELSE NoVal
        to == IF ok THEN AfterSuccess(modelIdx, attempt, max_retries)
              ELSE IF logged THEN AfterFailure(modelIdx, attempt, max_retries)
              ELSE IF caught THEN AfterLogRaises(modelIdx, attempt, max_retries)
              ELSE AfterInterrupt(modelIdx, attempt, max_retries)
    IN /\ calls' = Append(calls,
              [idx |-> modelIdx, model |-> name,
               family |-> IF handler = "action_fn" THEN "none"
                          ELSE get_model(name).family,
               ok |-> ok, exc |-> IF ok THEN "" ELSE o.res,
               log |-> o.log, val |-> val])
       /\ output' = IF ok /\ to.pc = "returned" THEN val ELSE output
       /\ stderr' = IF logged
                    THEN Append(stderr,
                           [line |-> "Attempt failed with", attempt |-> attempt + 1,
                            model |-> name, err |-> NoError])
                    ELSE stderr
       /\ pc' = to.pc
       /\ modelIdx' = to.modelIdx
       /\ attempt' = to.attempt
       /\ error' = IF ok \/ logged THEN to.error
                   ELSE IF caught
                        THEN IF o.log \in BaseExceptionNames THEN Raised(o.log)
                             ELSE LogError(o.str)
                        ELSE Raised(o.res)

\* one iteration of run_with_fallback's inner loop: action_fn(model_name)
\* returns a value; or raises an Exception, which the except clause prints to
\* stderr before the next iteration, unless formatting it raises, and then
\* what the formatting raised leaves the function with nothing printed; or
\* raises a BaseException that the except clause lets through
Attempt ==
    /\ pc = "rwf"
    /\ \/ \E v \in ProviderValues(handler) : Try(Returns, v)
       \/ Try(Logged, NoVal)
       \/ \E o \in LogRaisesException : Try(o, NoVal)
       \/ \E o \in LogRaisesBaseException : Try(o, NoVal)
       \/ \E o \in LetThrough : Try(o, NoVal)
    /\ UNCHANGED <<PRIMARY_MODEL, FALLBACK_MODEL, entry, input_data, handler,
                   max_retries, stdout, exitCode, prev, selVars, keyVars>>

\* main()'s json.dump(output, sys.stdout, indent=2) and the normal exit, or
\* the exception the encoder raises after the chunks it has written
DumpOutput ==
    /\ entry \in {"main", "run"}
    /\ pc = "returned"
    /\ stdout' = stdout \o iterencode(output).chunks
    /\ IF iterencode(output).raises
       THEN pc' = "raised" /\ error' = TypeError /\ exitCode' = exitCode
       ELSE pc' = "exited" /\ error' = error /\ exitCode' = 0
    /\ UNCHANGED <<PRIMARY_MODEL, FALLBACK_MODEL, entry, input_data, handler,
                   max_retries, modelIdx, attempt, calls, output, stderr, prev,
                   selVars, keyVars>>

\* main()'s except clause: print(f"Error: {e}", file=sys.stderr); sys.exit(1).
\* When formatting e raises, sys.exit(1) is not reached: what the formatting
\* raised leaves main() and the interpreter ends the process on it
FailFast ==
    /\ entry \in {"main", "run"}
    /\ pc = "raised"
    /\ IsException(error)
    /\ IF error.str = "text"
       THEN /\ stderr' = Append(stderr, [line |-> "Error: ", attempt |-> 0,
                                         model |-> << >>, err |-> error])
            /\ error' = error
            /\ exitCode' = 1
       ELSE /\ stderr' = IF UncaughtExit(StrError(error)).traceback
                         THEN Append(stderr, [line |-> "Traceback", attempt |-> 0,
                                              model |-> << >>,
                                              err |-> StrError(error)])
                         ELSE stderr
            /\ error' = StrError(error)
            /\ exitCode' = UncaughtExit(StrError(error)).status
    /\ pc' = "exited"
    /\ UNCHANGED <<PRIMARY_MODEL, FALLBACK_MODEL, entry, input_data, handler,
                   max_retries, modelIdx, attempt, calls, output, stdout,
                   prev, selVars, keyVars>>

\* an exception main()'s `except Exception` does not catch: the interpreter
\* ends the process: KeyboardInterrupt with a traceback and death by SIGINT,
\* SystemExit(n) silently with status n, any other with a traceback and 1
Uncaught ==
    /\ entry \in {"main", "run"}
    /\ pc = "raised"
    /\ ~IsException(error)
    /\ stderr' = IF UncaughtExit(error).traceback
                 THEN Append(stderr, [line |-> "Traceback", attempt |-> 0,
                                      model |-> << >>, err |-> error])
                 ELSE stderr
    /\ exitCode' = UncaughtExit(error).status
    /\ pc' = "exited"
    /\ UNCHANGED <<PRIMARY_MODEL, FALLBACK_MODEL, entry, input_data, handler,
                   max_retries, modelIdx, attempt, calls, output, error, stdout,
                   prev, selVars, keyVars>>

\* the invocation is over: the caller (a shell, a test) is free to start the
\* next one; nothing of the invocation outlives it but the history
Finish ==
    /\ Completed
    /\ Remember
    /\ entry' = "none"
    /\ input_data' = NoInput
    /\ pc' = "idle"
    /\ handler' = "none"
    /\ max_retries' = 0
    /\ modelIdx' = 1
    /\ attempt' = 0
    /\ calls' = << >>
    /\ output' = NoVal
    /\ error' = NoError
    /\ stdout' = << >>
    /\ stderr' = << >>
    /\ exitCode' = -1
    /\ UNCHANGED <<PRIMARY_MODEL, FALLBACK_MODEL, selVars, keyVars>>

Init ==
    /\ \E c \in ModelConfigs : PRIMARY_MODEL = c[1] /\ FALLBACK_MODEL = c[2]
    /\ entry = "none"
    /\ input_data = NoInput
    /\ pc = "idle"
    /\ handler = "none"
    /\ max_retries = 0
    /\ modelIdx = 1
    /\ attempt = 0
    /\ calls = << >>
    /\ output = NoVal
    /\ error = NoError
    /\ stdout = << >>
    /\ stderr = << >>
    /\ exitCode = -1
    /\ prev = NoPrev
    /\ selName = << >>
    /\ selHandle = NoHandle
    /\ keyA = << >>
    /\ keyB = << >>
    /\ keyOutA = << >>
    /\ keyOutB = << >>

Next ==
    \/ StartMain
    \/ StartRun
    \/ CallBuild
    \/ CallRunWithFallback
    \/ Attempt
    \/ DumpOutput
    \/ FailFast
    \/ Uncaught
    \/ Finish

Spec == Init /\ [][Next]_vars

(***************************************************************************)
(* Selection specification: get_model applied to names built from          *)
(* fragments, so that keywords of several families meet in one name,       *)
(* in either case, and across fragment borders.                            *)
(***************************************************************************)
Fragments ==
    { S_openai, S_qwen, S_llama, S_mixtral, S_groq, S_gemini, S_flash, S_pro,
      S_claude, S_sonnet, S_opus, S_haiku, S_gpt4o,
      <<"o","p","e","n","a","i">>, <<"/">>, <<"-">>, <<"p">>, <<"r","o">>,
      <<"G","E","M","I","N","I">>, <<"C","l","a","u","d","e">>,
      <<"L","L","A","M","A">>, <<"O","p","u","s">>, <<"g","r","o">>, <<"q">>,
      <<"C","L","A","U","D","E">>, <<"H","A","I","K","U">>,
      <<"M","I","X","T","R","A","L">>, <<"Q","W","E","N","/">>,
      <<"S","O","N","N","E","T">>, <<"F","L","A","S","H">> }

RECURSIVE NamesUpTo(_)
NamesUpTo(k) ==
    IF k = 0 THEN { << >> }
    ELSE NamesUpTo(k - 1) \cup { a \o f : a \in NamesUpTo(k - 1), f \in Fragments }

ModelNames == NamesUpTo(MaxFrags) \ { << >> }

ProcIdle ==
    /\ PRIMARY_MODEL = DefaultModel
    /\ FALLBACK_MODEL = DefaultModel
    /\ entry = "none"
    /\ input_data = NoInput
    /\ pc = "idle"
    /\ handler = "none"
    /\ max_retries = 0
    /\ modelIdx = 1
    /\ attempt = 0
    /\ calls = << >>
    /\ output = NoVal
    /\ error = NoError
    /\ stdout = << >>
    /\ stderr = << >>
    /\ exitCode = -1
    /\ prev = NoPrev

InitSelect ==
    /\ ProcIdle
    /\ selName \in ModelNames
    /\ selHandle = NoHandle
    /\ keyA = << >>
    /\ keyB = << >>
    /\ keyOutA = << >>
    /\ keyOutB = << >>

\* model = get_model(model_name)
SelectModel ==
    /\ selHandle = NoHandle
    /\ selHandle' = get_model(selName)
    /\ UNCHANGED <<procVars, selName, keyVars>>

NextSelect == SelectModel

SpecSelect == InitSelect /\ [][NextSelect]_vars

(***************************************************************************)
(* Cache-key specification.  hash_input is imported by test_agents.py but  *)
(* is not in agents.py; it is modelled from the specification's            *)
(* compute_key: the digest of the serialization with the keys sorted.      *)
(***************************************************************************)
\* the keys of a request, in the order sort_keys=True puts them
KeyOrder == <<"action", "cv", "job_posting">>
Rank(k) == CHOOSE i \in 1..Len(KeyOrder) : KeyOrder[i] = k
KeyValues == {1, 2}

\* a request as Python holds it: key/value pairs in insertion order
RECURSIVE RequestsUpTo(_)
RequestsUpTo(n) ==
    IF n = 0 THEN { << >> }
    ELSE RequestsUpTo(n - 1) \cup
         { Append(r, [key |-> KeyOrder[i], value |-> v]) :
             r \in { q \in RequestsUpTo(n - 1) : Len(q) = n - 1 },
             i \in 1..Len(KeyOrder), v \in KeyValues }

DistinctKeys(r) == \A i, j \in 1..Len(r) : r[i].key = r[j].key => i = j

Requests == { r \in RequestsUpTo(MaxPairs) : DistinctKeys(r) }

\* the pairs of r in increasing key order
SortKeys(r) ==
    [i \in 1..Len(r) |->
        CHOOSE p \in { r[j] : j \in 1..Len(r) } :
            Cardinality({ q \in { r[j] : j \in 1..Len(r) } : Rank(q.key) < Rank(p.key) }) = i - 1]

\* the serialization as a sequence of character codes: key, value, key, value
RECURSIVE Serialize(_)
Serialize(r) ==
    IF r = << >> THEN << >>
    ELSE <<10 + Rank(Head(r).key), Head(r).value>> \o Serialize(Tail(r))

HexDigits == <<"0","1","2","3","4","5","6","7","8","9","a","b","c","d","e","f">>

RECURSIVE Mix(_, _)
Mix(codes, acc) ==
    IF codes = << >> THEN acc
    ELSE Mix(Tail(codes), (acc * 31 + Head(codes)) % 65521)

\* stands for hashlib.sha256(text).hexdigest(): a function of the text alone,
\* sensitive to the order of its characters, giving 64 lowercase hex digits
sha256_hexdigest(codes) ==
    [i \in 1..64 |-> HexDigits[((Mix(codes, 7) * i + i * i) % 16) + 1]]

\* a plausible slip: the serialization keeps the insertion order of the keys
hash_input_unsorted(r) == sha256_hexdigest(Serialize(r))

\* compute_key / hash_input
hash_input(r) == sha256_hexdigest(Serialize(SortKeys(r)))

InitKey ==
    /\ ProcIdle
    /\ selName = << >>
    /\ selHandle = NoHandle
    /\ keyA \in Requests
    /\ keyB \in Requests
    /\ keyOutA = << >>
    /\ keyOutB = << >>

\* hash_input on the two requests
HashInputs ==
    /\ keyOutA = << >>
    /\ keyOutA' = hash_input(keyA)
    /\ keyOutB' = hash_input(keyB)
    /\ UNCHANGED <<procVars, selVars, keyA, keyB>>

NextKey == HashInputs

SpecKey == InitKey /\ [][NextKey]_vars

(***************************************************************************)
(* Properties.                                                             *)
(***************************************************************************)
CallIdx == 1..Len(calls)

\* a handler's call of run_with_fallback has started
InLoop == handler # "none"
\* ... and is over
LoopOver == InLoop /\ pc # "rwf"

AllFailed == \A k \in CallIdx : ~calls[k].ok
\* every call failed in the narrow sense: action_fn raised an Exception, the
\* kind of failure the except clause is there to catch
AllRaisedException == \A k \in CallIdx : calls[k].exc = "Exception"
PrimaryAlwaysFailed == \A k \in CallIdx : calls[k].idx = 1 => ~calls[k].ok
FallbackFirstOk ==
    \E k \in CallIdx :
        /\ calls[k].idx = 2
        /\ calls[k].ok
        /\ \A j \in 1..(k - 1) : calls[j].idx # 2

\* C1 (fallback ordering): once every call on the primary has failed and the
\* first call on the fallback has succeeded, the loop is over, the primary was
\* called max_retries times, max_retries + 1 calls were made in all, and the
\* value returned is the value of the last call, the fallback's.
FallbackOrdering ==
    (PrimaryAlwaysFailed /\ FallbackFirstOk) =>
        /\ pc # "rwf"
        /\ Len(calls) = max_retries + 1
        /\ Cardinality({k \in CallIdx : calls[k].idx = 1}) = max_retries
        /\ calls[Len(calls)].idx = 2
        /\ calls[Len(calls)].model = FALLBACK_MODEL
        /\ output = calls[Len(calls)].val
        /\ output # NoVal

\* the process main.py has returned from the build handler with the fallback's
\* result after two failures of the primary
FallbackOrderingWitness ==
    /\ entry = "main"
    /\ pc = "returned"
    /\ PrimaryAlwaysFailed
    /\ FallbackFirstOk
    /\ Len(calls) = DefaultMaxRetries + 1

\* C2 (retry exhaustion), as claimed: when the loop is over and every call has
\* failed, the error in flight is "All AI attempts failed", no value was
\* returned, and a process that has exited has written nothing to stdout and
\* exited with 1.  A failure is read in the narrow sense, an Exception raised
\* by action_fn.  (agents.py holds no cache: there is nothing a result could
\* be stored in.)
RetryExhaustion ==
    (LoopOver /\ AllRaisedException) =>
        /\ error = AllAttemptsFailed
        /\ pc \in {"raised", "exited"}
        /\ output = NoVal
        /\ stdout = << >>
        /\ (pc = "exited" => exitCode = 1)

\* C3 (cache idempotence), as claimed: a completed call of the build handler
\* on the request of an earlier call that returned a result has made no
\* provider call and returns that earlier result.
CacheIdempotence ==
    (Completed /\ handler = "build" /\ prev # NoPrev /\ prev.input = input_data) =>
        /\ calls = << >>
        /\ output = prev.output

KnownActions == {"build", "extract", "advise"}

\* C4 (dispatch): in main.py, which calls dispatch, an object whose action is
\* build, extract or advise reaches exactly the handler of that name, an
\* object with no action reaches the build handler with the same parameters
\* as one whose action is build, and an object with any other action reaches
\* no handler, makes no provider call, returns nothing and raises the error
\* "Unknown action: " naming the value.
DispatchRouting ==
    (entry = "main" /\ input_data.kind = "object") =>
        /\ (input_data.hasAction /\ input_data.action \in KnownActions) =>
               handler = input_data.action
        /\ ~input_data.hasAction =>
               (handler = "build" /\ max_retries = DefaultMaxRetries)
        /\ (input_data.hasAction /\ input_data.action = "build") =>
               (handler = "build" /\ max_retries = DefaultMaxRetries)
        /\ (input_data.hasAction /\ input_data.action \notin KnownActions) =>
               /\ handler = "none"
               /\ calls = << >>
               /\ output = NoVal
               /\ stdout = << >>
               /\ pc \in {"raised", "exited"}
               /\ error = UnknownAction(input_data.action)
               /\ error.arg = input_data.action

\* main.py has exited on the action frobnicate without a provider call
DispatchRoutingWitness ==
    /\ entry = "main"
    /\ input_data.hasAction
    /\ input_data.action = "frobnicate"
    /\ pc = "exited"
    /\ exitCode = 1
    /\ calls = << >>

FullDocument(val) ==
    << [tok |-> "{", id |-> 0], [tok |-> "doc", id |-> val.id], [tok |-> "}", id |-> 0] >>

\* an exit the provider call asked for with SystemExit: not an error
RequestedExit == error.exc \in {"SystemExit(0)", "SystemExit(3)"}

\* C5 (process failure surface), as claimed: a process that has exited either
\* met a fatal error, and then exited non-zero, wrote a diagnostic of that
\* error to stderr and wrote nothing to stdout; or met none, and then exited 0
\* having written exactly the one document of the handler's result.  (The
\* claim speaks of errors: an exit requested with SystemExit is left out.)
ProcessFailureSurface ==
    (entry \in {"main", "run"} /\ pc = "exited" /\ ~RequestedExit) =>
        IF error # NoError
        THEN /\ exitCode # 0
             /\ \E i \in 1..Len(stderr) :
                    stderr[i].line \in {"Error: ", "Traceback"} /\ stderr[i].err = error
             /\ stdout = << >>
        ELSE /\ exitCode = 0
             /\ stdout = FullDocument(output)

\* C8 (call ordering), as claimed: the calls are a prefix of max_retries calls
\* on the primary followed by max_retries calls on the fallback; only the last
\* call can have succeeded; the fallback is called after max_retries failures
\* of the primary; a failure that is not the last of the fallback is swallowed
\* and leaves the loop running, with one stderr line per failure; a successful
\* call ends the loop with its value as the result.  A failure is read in the
\* narrow sense, an Exception raised by action_fn.
CallOrdering ==
    /\ Len(calls) <= 2 * max_retries
    /\ \A k \in CallIdx :
         /\ calls[k].idx = (IF k <= max_retries THEN 1 ELSE 2)
         /\ calls[k].model = ModelOrder[calls[k].idx]
         /\ (k < Len(calls) => ~calls[k].ok)
         /\ (calls[k].idx = 2 =>
               Cardinality({j \in 1..(k - 1) : calls[j].idx = 1 /\ ~calls[j].ok})
                 = max_retries)
    /\ (InLoop /\ AllRaisedException /\ Len(calls) < 2 * max_retries) => pc = "rwf"
    /\ Cardinality({i \in 1..Len(stderr) : stderr[i].line = "Attempt failed with"})
         = Cardinality({k \in CallIdx : calls[k].exc = "Exception"})
    /\ \A k \in CallIdx :
         calls[k].ok => (k = Len(calls) /\ pc # "rwf" /\ output = calls[k].val)

\* C9 (bounded termination), as claimed: at most 2 * max_retries calls are
\* made, and a running loop has made fewer; a loop that is over with every
\* call failed has made exactly 2 * max_retries calls and raised "All AI
\* attempts failed", whether or not the two model names are equal; with
\* max_retries = 0 it raises after no call.  A failure is read in the narrow
\* sense, an Exception raised by action_fn.
BoundedTermination ==
    /\ Len(calls) <= 2 * max_retries
    /\ pc = "rwf" => Len(calls) < 2 * max_retries
    /\ (LoopOver /\ AllRaisedException) =>
          (Len(calls) = 2 * max_retries /\ error = AllAttemptsFailed)
    /\ (InLoop /\ error = AllAttemptsFailed) =>
          (Len(calls) = 2 * max_retries /\ AllFailed)
    /\ (InLoop /\ max_retries = 0) =>
          (calls = << >> /\ error = AllAttemptsFailed /\ pc = "raised")

\* C10 (entry-point divergence): run.py sends every object to the build
\* handler and never raises the unknown-action error, while main.py sends an
\* object to the build handler exactly when its action is build or absent.
EntryPointDivergence ==
    /\ (entry = "run" /\ input_data.kind = "object") =>
          (handler = "build" /\ error.exc # "ValueError")
    /\ (entry = "main" /\ input_data.kind = "object") =>
          (handler = "build" <=>
             (~input_data.hasAction \/ input_data.action = "build"))

\* run.py has processed an object with an unknown action as a build and exited 0
EntryPointDivergenceWitness ==
    /\ entry = "run"
    /\ input_data.hasAction
    /\ input_data.action = "frobnicate"
    /\ handler = "build"
    /\ pc = "exited"
    /\ exitCode = 0
    /\ Len(calls) > 0

\* kw occurs in name, letters compared without regard to case
OccursIgnoringCase(kw, name) ==
    \E off \in 0..(Len(name) - Len(kw)) :
        \A k \in 1..Len(kw) :
            \/ name[off + k] = kw[k]
            \/ (name[off + k] \in DOMAIN LowerOf /\ LowerOf[name[off + k]] = kw[k])

IsGroqName(name) ==
    \E kw \in {S_openai, S_qwen, S_llama, S_mixtral, S_groq} : OccursIgnoringCase(kw, name)
IsGoogleName(name) ==
    \E kw \in {S_gemini, S_flash, S_pro} : OccursIgnoringCase(kw, name)
IsAnthropicName(name) ==
    \E kw \in {S_claude, S_sonnet, S_opus, S_haiku} : OccursIgnoringCase(kw, name)

\* C7 (model selection): the handle get_model returns is bound to the literal
\* name and to the first family, in the order Groq, Google, Anthropic, whose
\* keywords occur in the name ignoring case, and to OpenAI when none does.
FirstMatchingFamily ==
    selHandle # NoHandle =>
        /\ selHandle.name = selName
        /\ selHandle.family \in {"Groq", "Google", "Anthropic", "OpenAI"}
        /\ (selHandle.family = "Groq" <=> IsGroqName(selName))
        /\ (selHandle.family = "Google" <=>
              (~IsGroqName(selName) /\ IsGoogleName(selName)))
        /\ (selHandle.family = "Anthropic" <=>
              (~IsGroqName(selName) /\ ~IsGoogleName(selName) /\ IsAnthropicName(selName)))
        /\ (selHandle.family = "OpenAI" <=>
              (~IsGroqName(selName) /\ ~IsGoogleName(selName) /\ ~IsAnthropicName(selName)))

\* a name with a Google and an Anthropic keyword has been given to Google
FirstMatchingFamilyWitness ==
    /\ selHandle # NoHandle
    /\ IsGoogleName(selName)
    /\ IsAnthropicName(selName)
    /\ selHandle.family = "Google"

SameMapping(r1, r2) ==
    {r1[i] : i \in 1..Len(r1)} = {r2[i] : i \in 1..Len(r2)}

\* C6 (cache-key determinism): the keys of two requests that are equal as
\* mappings are equal, whatever the insertion order of their pairs, and a key
\* is 64 lowercase hex digits.
KeyDeterminism ==
    keyOutA # << >> =>
        /\ SameMapping(keyA, keyB) => keyOutA = keyOutB
        /\ Len(keyOutA) = 64
        /\ Len(keyOutB) = 64
        /\ \A i \in 1..64 : \E h \in 1..16 : keyOutA[i] = HexDigits[h]

\* two requests with the same two pairs in different orders have been hashed
KeyDeterminismWitness ==
    /\ keyOutA # << >>
    /\ Len(keyA) = 2
    /\ keyA # keyB
    /\ SameMapping(keyA, keyB)

====
